---- MODULE Spec2Model ----
(***************************************************************************)
(* The Planville customer-service chatbot of src/main.py: the POST /chat   *)
(* handler with its keyword intent gate, the retrieval index with its      *)
(* scraper fallback, the prompt and the completion call.                   *)
(*                                                                         *)
(* A text (a Python str) is a sequence of characters, each character a     *)
(* one-element string.  The fixed texts of the program (the static replies *)
(* and the two literal parts of the prompt template) are written as one    *)
(* element each, named after their first words, since nothing in the       *)
(* program looks inside them; they are written in ASCII and shortened.     *)
(* The characters U+00E4 and U+00C4 are written "a-umlaut" and "A-umlaut". *)
(***************************************************************************)
EXTENDS Integers, Sequences, FiniteSets, TLC

VARIABLES
    VALID_KEYWORDS,  \* the module-level keyword list
    body,            \* body[h]: the JSON body of the request handler h serves
    request,         \* request[h]: the ChatRequest parsed from it
    pc,              \* pc[h]: where handler h stands in chat()
    frame,           \* frame[h]: the local variables of that call of chat()
    calls,           \* calls[h]: the external calls the request has made, in order
    http             \* http[h]: what the caller of the endpoint gets back

vars == <<VALID_KEYWORDS, body, request, pc, frame, calls, http>>

(***************************************************************************)
(* Bounds of the model.                                                    *)
(***************************************************************************)
NumHandlers == 2    \* requests handled concurrently
MaxFragments == 2   \* a message is at most this many fragments long

Handlers == 1..NumHandlers

(***************************************************************************)
(* Python values.                                                          *)
(***************************************************************************)
PyStr(chars) == [type |-> "str", chars |-> chars]
PyList(items) == [type |-> "list", items |-> items]
PyNone == [type |-> "NoneType"]
Unbound == [type |-> "unbound"]

\* Truthy with `is not None` in place of truth: an empty list is then kept
Truthy_is_not_none(v) == v.type # "NoneType"

\* bool(v), as `not context_docs` and `not reply_text` take it
Truthy(v) ==
    CASE v.type = "list" -> Len(v.items) > 0
      [] v.type = "str" -> Len(v.chars) > 0
      [] OTHER -> FALSE

\* the outcome of a call: a value, or an exception of a class derived from Exception
Return(v) == [kind |-> "return", value |-> v]
Raise(cls) == [kind |-> "raise", exc |-> cls]

(***************************************************************************)
(* str.lower(), str.strip(), `in` and str.join().                          *)
(***************************************************************************)
UpperCase == <<"A", "C", "D", "E", "F", "H", "M", "O", "P", "R", "T", "U", "W", "A-umlaut">>
LowerCase == <<"a", "c", "d", "e", "f", "h", "m", "o", "p", "r", "t", "u", "w", "a-umlaut">>

LowerChar(c) ==
    IF \E i \in 1..Len(UpperCase) : UpperCase[i] = c
    THEN LowerCase[CHOOSE i \in 1..Len(UpperCase) : UpperCase[i] = c]
    ELSE c

\* lower() left out: the message is matched as typed
lower_unchanged(s) == s

lower(s) == [i \in 1..Len(s) |-> LowerChar(s[i])]

Whitespace == {" ", "\n", "\t"}

RECURSIVE lstrip(_)
lstrip(s) == IF s # <<>> /\ Head(s) \in Whitespace THEN lstrip(Tail(s)) ELSE s

RECURSIVE rstrip(_)
rstrip(s) ==
    IF s # <<>> /\ s[Len(s)] \in Whitespace THEN rstrip(SubSeq(s, 1, Len(s) - 1)) ELSE s

strip(s) == rstrip(lstrip(s))

\* whether s starts with the text sub
RECURSIVE StartsWith(_, _)
StartsWith(s, sub) ==
    \/ sub = <<>>
    \/ /\ s # <<>>
       /\ Head(s) = Head(sub)
       /\ StartsWith(Tail(s), Tail(sub))

\* `sub in s`: a scan of s from the left
RECURSIVE Contains(_, _)
Contains(s, sub) ==
    \/ StartsWith(s, sub)
    \/ s # <<>> /\ Contains(Tail(s), sub)

\* join with the separator left out
RECURSIVE join_without_separator(_, _)
join_without_separator(sep, items) ==
    IF items = <<>> THEN <<>>
    ELSE items[1].chars \o join_without_separator(sep, Tail(items))

\* sep.join(items) for a list of str
RECURSIVE join(_, _)
join(sep, items) ==
    IF items = <<>> THEN <<>>
    ELSE IF Len(items) = 1 THEN items[1].chars
    ELSE items[1].chars \o sep \o join(sep, Tail(items))

\* "\n".join(v) raises TypeError unless v is a sequence of str
Joinable(v) == v.type = "list" /\ \A i \in 1..Len(v.items) : v.items[i].type = "str"

(***************************************************************************)
(* The intent gate.                                                        *)
(***************************************************************************)
KEYWORD_LIST ==
    << <<"p","h","o","t","o","v","o","l","t","a","i","k">>,
       <<"p","h","o","t","o","v","o","l","t","a","i","c","s">>,
       <<"d","a","c","h">>,
       <<"r","o","o","f">>,
       <<"w","a-umlaut","r","m","e","p","u","m","p","e">>,
       <<"h","e","a","t"," ","p","u","m","p">>,
       <<"k","l","i","m","a","a","n","l","a","g","e">>,
       <<"a","i","r"," ","c","o","n","d","i","t","i","o","n","e","r">>,
       <<"b","e","r","a","t","u","n","g">>,
       <<"c","o","n","s","u","l","t","a","t","i","o","n">>,
       <<"a","n","g","e","b","o","t">>,
       <<"q","u","o","t","e">>,
       <<"k","o","n","t","a","k","t">>,
       <<"c","o","n","t","a","c","t">>,
       <<"t","e","r","m","i","n">>,
       <<"a","p","p","o","i","n","t","m","e","n","t">>,
       <<"m","o","n","t","a","g","e">>,
       <<"i","n","s","t","a","l","l","a","t","i","o","n">> >>

is_valid_intent(message) ==
    LET msg == lower(message)
    IN  \E k \in 1..Len(VALID_KEYWORDS) : Contains(msg, VALID_KEYWORDS[k])

(***************************************************************************)
(* The requests.                                                           *)
(***************************************************************************)
\* class ChatRequest: `lang` defaults to "de" when the body leaves it out
ChatRequest(b) ==
    [message |-> b.message,
     lang |-> IF "lang" \in DOMAIN b THEN b.lang ELSE "de"]

\* dict.get with the English text as the default
dict_get_default_en(d, key, default) == IF key \in DOMAIN d THEN d[key] ELSE d["en"]

\* dict.get(key, default)
dict_get(d, key, default) == IF key \in DOMAIN d THEN d[key] ELSE default

(***************************************************************************)
(* The fixed texts of chat().                                              *)
(***************************************************************************)
fallback_msg ==
    [de |-> <<"Ich kann nur Fragen zu Planville Dienstleistungen beantworten. Bitte kontaktieren Sie uns direkt unter: https://planville.de/kontakt">>,
     en |-> <<"I can only answer questions related to Planville services. Please contact us directly here: https://planville.de/kontakt">>]

fallback ==
    <<"Entschuldigung, ich habe leider keine passende Information zu Ihrer Anfrage. [...] https://planville.de/kontakt">>

error_reply ==
    <<"Es ist ein Fehler aufgetreten. Bitte versuchen Sie es spaeter erneut oder kontaktieren Sie uns direkt. [...] https://planville.de/kontakt">>

\* the f-string of the prompt: its literal parts around the two fields
prompt_template(message, context_text) ==
    <<"\nDu bist ein professioneller Kundenservice-Assistent von Planville GmbH.\nAntworte bitte hoeflich, direkt und hilfreich basierend auf dem folgenden Kontext.\n\nFrage:\n">>
        \o message
        \o <<"\n\nKontext:\n">>
        \o context_text
        \o <<"\n">>

\* the keyword arguments of client.chat.completions.create
completion_args(prompt) ==
    [model |-> "gpt-3.5-turbo",
     messages |-> <<[role |-> "user", content |-> prompt]>>,
     temperature |-> "0.4"]

(***************************************************************************)
(* What the world outside may answer.                                      *)
(***************************************************************************)
ExceptionSubclasses ==
    {"TypeError", "AttributeError", "IndexError", "APIError", "ConnectionError"}

Doc1 == PyStr(<<"P", "V">>)
Doc2 == PyStr(<<"D", "a", "c", "h">>)

\* what query_index and get_scraped_context may return or raise
CollaboratorOutcomes ==
    { Return(PyList(<<>>)),
      Return(PyList(<<Doc1, Doc2>>)),
      Return(PyList(<<Doc1, PyNone>>)),
      Return(PyNone),
      Raise("ConnectionError") }

ChatCompletion(choices) == [type |-> "ChatCompletion", choices |-> choices]
Choice(content) == [message |-> [role |-> "assistant", content |-> content]]

Contents ==
    { <<>>,
      <<" ", "\n">>,
      <<" ", "J", "a", "\n">> }

\* what client.chat.completions.create may return or raise
CompletionOutcomes ==
    { Raise("APIError"),
      Return(ChatCompletion(<<Choice(PyNone)>>)) }
    \cup { Return(ChatCompletion(<<Choice(PyStr(c))>>)) : c \in Contents }

(***************************************************************************)
(* chat(): the steps of one handler.                                       *)
(***************************************************************************)
NoLocals ==
    [context_docs |-> Unbound, context_text |-> Unbound, prompt |-> Unbound,
     response |-> Unbound, reply_text |-> Unbound]

\* the assignment with the variable declared `global`: every call of chat() sees it
StoreGlobal(fr, h, name, v) == [g \in DOMAIN fr |-> [fr[g] EXCEPT ![name] = v]]

\* an assignment to a local variable of handler h's call of chat()
StoreLocal(fr, h, name, v) == [fr EXCEPT ![h][name] = v]

\* the record of an external call
Call(fn, arg, out) == [fn |-> fn, arg |-> arg, out |-> out]

Ok200(text) == [status |-> 200, reply |-> text]

\* an except clause for the errors of the completion client only
Caught_api_errors_only(cls) == cls = "APIError"

\* `except Exception`: every class here derives from Exception
Caught(cls) == cls \in ExceptionSubclasses

\* the except block; an exception it does not catch leaves the handler
OnException(cls) ==
    IF Caught(cls) THEN Ok200(error_reply) ELSE [status |-> 500, raised |-> cls]

\* `return`: the handler ends and the caller gets resp
Finish(h, resp) ==
    /\ http' = [http EXCEPT ![h] = resp]
    /\ pc' = [pc EXCEPT ![h] = "responded"]

Goto(h, label) ==
    /\ pc' = [pc EXCEPT ![h] = label]
    /\ UNCHANGED http

\* the gate with its `return` left out: a rejected message is processed all the same
chat_gate_falls_through(h) ==
    /\ pc[h] = "received"
    /\ Goto(h, "query_index")
    /\ UNCHANGED <<VALID_KEYWORDS, body, request, frame, calls>>

\* lines 52-59
chat_gate(h) ==
    /\ pc[h] = "received"
    /\ IF ~is_valid_intent(request[h].message)
       THEN Finish(h, Ok200(dict_get(fallback_msg, request[h].lang, fallback_msg["de"])))
       ELSE Goto(h, "query_index")
    /\ UNCHANGED <<VALID_KEYWORDS, body, request, frame, calls>>

\* a failing index treated as an empty one: the scraper is tried after the error
after_query_index_scraper_on_error(out) ==
    IF out.kind = "raise" THEN "get_scraped_context"
    ELSE IF ~Truthy(out.value) THEN "get_scraped_context"
    ELSE "join"

\* where chat() goes on after query_index: the except block, line 68 or line 71
after_query_index(out) ==
    IF out.kind = "raise" THEN "except"
    ELSE IF ~Truthy(out.value) THEN "get_scraped_context"
    ELSE "join"

\* line 63
call_query_index(h) ==
    /\ pc[h] = "query_index"
    /\ \E out \in CollaboratorOutcomes :
        /\ calls' = [calls EXCEPT ![h] = Append(@, Call("query_index", request[h].message, out))]
        /\ IF after_query_index(out) = "except"
           THEN Finish(h, OnException(out.exc)) /\ UNCHANGED frame
           ELSE /\ Goto(h, after_query_index(out))
                /\ frame' = IF out.kind = "return"
                            THEN StoreLocal(frame, h, "context_docs", out.value)
                            ELSE frame
    /\ UNCHANGED <<VALID_KEYWORDS, body, request>>

\* the argument of the scraper call of line 68
scraper_query(req) == req.message

\* lines 66-68
call_get_scraped_context(h) ==
    /\ pc[h] = "get_scraped_context"
    /\ \E out \in CollaboratorOutcomes :
        /\ calls' = [calls EXCEPT ![h] = Append(@, Call("get_scraped_context", scraper_query(request[h]), out))]
        /\ IF out.kind = "raise"
           THEN Finish(h, OnException(out.exc)) /\ UNCHANGED frame
           ELSE /\ Goto(h, "join")
                /\ frame' = StoreLocal(frame, h, "context_docs", out.value)
    /\ UNCHANGED <<VALID_KEYWORDS, body, request>>

\* lines 71-83
build_prompt(h) ==
    /\ pc[h] = "join"
    /\ LET docs == frame[h].context_docs
       IN  IF ~Joinable(docs)
           THEN Finish(h, OnException("TypeError")) /\ UNCHANGED frame
           ELSE LET context_text == join(<<"\n">>, docs.items)
                    prompt == prompt_template(request[h].message, context_text)
                IN  /\ frame' = StoreLocal(StoreLocal(frame, h, "context_text", PyStr(context_text)),
                                           h, "prompt", PyStr(prompt))
                    /\ Goto(h, "completion")
    /\ UNCHANGED <<VALID_KEYWORDS, body, request, calls>>

\* lines 86-90
call_completion(h) ==
    /\ pc[h] = "completion"
    /\ \E out \in CompletionOutcomes :
        /\ calls' = [calls EXCEPT ![h] =
                        Append(@, Call("chat.completions.create",
                                       completion_args(frame[h].prompt.chars), out))]
        /\ IF out.kind = "raise"
           THEN Finish(h, OnException(out.exc)) /\ UNCHANGED frame
           ELSE /\ Goto(h, "extract_reply")
                /\ frame' = StoreLocal(frame, h, "response", out.value)
    /\ UNCHANGED <<VALID_KEYWORDS, body, request>>

\* the reply returned as the model gave it, empty or not
reply_unchecked(reply_text) == reply_text

\* lines 96-104: the static text stands in for an empty reply
reply_or_fallback(reply_text) ==
    IF ~Truthy(PyStr(reply_text)) THEN fallback ELSE reply_text

\* lines 93-104
extract_reply(h) ==
    /\ pc[h] = "extract_reply"
    /\ LET response == frame[h].response
       IN  IF response.choices = <<>>
           THEN Finish(h, OnException("IndexError")) /\ UNCHANGED frame
           ELSE LET content == response.choices[1].message.content
                IN  IF content.type # "str"
                    THEN Finish(h, OnException("AttributeError")) /\ UNCHANGED frame
                    ELSE /\ frame' = StoreLocal(frame, h, "reply_text", PyStr(strip(content.chars)))
                         /\ Finish(h, Ok200(reply_or_fallback(strip(content.chars))))
    /\ UNCHANGED <<VALID_KEYWORDS, body, request, calls>>

Next ==
    \E h \in Handlers :
        \/ chat_gate(h)
        \/ call_query_index(h)
        \/ call_get_scraped_context(h)
        \/ build_prompt(h)
        \/ call_completion(h)
        \/ extract_reply(h)

(***************************************************************************)
(* The requests the model is run on.                                       *)
(***************************************************************************)
Fragments ==
    { <<"r", "o", "o", "f">>,
      <<"R", "o", "o", "F">>,
      <<"t", "o", "p">>,
      <<"H", "e", "a", "t">>,
      <<" ", "p", "u", "m", "p">>,
      <<"W", "A-umlaut", "R", "M", "E">>,
      <<"p", "u", "m", "p", "e">>,
      <<"W", "e", "t", "t", "e", "r">> }

RECURSIVE Concat(_)
Concat(fs) == IF fs = <<>> THEN <<>> ELSE Head(fs) \o Concat(Tail(fs))

Messages ==
    { Concat(fs) : fs \in UNION { [1..n -> Fragments] : n \in 0..MaxFragments } }

Langs == {"de", "en", "fr"}

Bodies ==
    { [message |-> m] : m \in Messages }
        \cup { [message |-> m, lang |-> l] : m \in Messages, l \in Langs }

\* the requests of the concurrent runs
ConcBodies ==
    { [message |-> <<"r", "o", "o", "f">>, lang |-> "en"],
      [message |-> <<"W", "e", "t", "t", "e", "r">>] }

NoResponse == [status |-> 0]

InitWith(active, bodies) ==
    /\ VALID_KEYWORDS = KEYWORD_LIST
    /\ \E b \in [active -> bodies] :
         body = [h \in Handlers |-> IF h \in active THEN b[h] ELSE Unbound]
    /\ request = [h \in Handlers |-> IF h \in active THEN ChatRequest(body[h]) ELSE Unbound]
    /\ pc = [h \in Handlers |-> IF h \in active THEN "received" ELSE "idle"]
    /\ frame = [h \in Handlers |-> NoLocals]
    /\ calls = [h \in Handlers |-> <<>>]
    /\ http = [h \in Handlers |-> NoResponse]

\* one request at a time
Init == InitWith({1}, Bodies)

Spec == Init /\ [][Next]_vars

\* every handler serving a request, interleaved at will
InitConc == InitWith(Handlers, ConcBodies)

SpecConc == InitConc /\ [][Next]_vars

(***************************************************************************)
(* What the properties below read off a state.                             *)
(***************************************************************************)
Active(h) == pc[h] # "idle"
Responded(h) == pc[h] = "responded"
Rejected(h) == Active(h) /\ ~is_valid_intent(request[h].message)
Accepted(h) == Active(h) /\ is_valid_intent(request[h].message)

\* the positions in calls[h] of the calls to fn
CallsTo(h, fn) == { i \in 1..Len(calls[h]) : calls[h][i].fn = fn }

Returned(c) == c.out.kind = "return"
Raised(c) == c.out.kind = "raise"

\* a collaborator result with nothing in it: the empty list, or no list at all
IsEmptyResult(v) == v = PyNone \/ (v.type = "list" /\ Len(v.items) = 0)

\* C1: a request whose message the intent gate rejects makes no external call
\* at any point, and is answered with one of the two static redirect texts.
C1_RejectedMakesNoCall ==
    \A h \in Handlers :
        Rejected(h) =>
            /\ calls[h] = <<>>
            /\ pc[h] \in {"received", "responded"}
            /\ Responded(h) =>
                   http[h] \in {Ok200(fallback_msg["de"]), Ok200(fallback_msg["en"])}

C1_Witness ==
    \E h \in Handlers :
        Rejected(h) /\ Responded(h) /\ request[h].message # <<>>

\* C2: every response of POST /chat is a 200 with a reply that is not empty.
C2_ReplyNeverEmpty ==
    \A h \in Handlers :
        Responded(h) =>
            /\ http[h].status = 200
            /\ "reply" \in DOMAIN http[h]
            /\ Len(http[h].reply) > 0
            /\ \A i \in 1..Len(http[h].reply) : http[h].reply[i] # ""

\* the completion returned nothing but whitespace and the request was answered
C2_Witness ==
    \E h \in Handlers :
        /\ Responded(h)
        /\ \E i \in CallsTo(h, "chat.completions.create") :
              /\ Returned(calls[h][i])
              /\ calls[h][i].out.value.choices[1].message.content = PyStr(<<" ", "\n">>)

\* whether a step of the processing of h's request raised: a call, the join of
\* the documents used, or the extraction of the reply
ProcessingRaised(h) ==
    /\ calls[h] # <<>>
    /\ LET last == calls[h][Len(calls[h])]
       IN  \/ Raised(last)
           \/ /\ last.fn = "query_index"
              /\ Returned(last)
              /\ ~IsEmptyResult(last.out.value)
              /\ ~Joinable(last.out.value)
           \/ /\ last.fn = "get_scraped_context"
              /\ Returned(last)
              /\ ~Joinable(last.out.value)
           \/ /\ last.fn = "chat.completions.create"
              /\ Returned(last)
              /\ \/ last.out.value.choices = <<>>
                 \/ last.out.value.choices[1].message.content.type # "str"

\* C3: when a step of the processing of an accepted message raises, the
\* request still ends with a 200 whose reply is the fixed failure text.
C3_ExceptionBecomesFailureReply ==
    \A h \in Handlers :
        Responded(h) /\ Accepted(h) /\ ProcessingRaised(h) =>
            http[h] = Ok200(error_reply)

\* the scraper returned something that is no list of str, the join raised, and
\* the request was answered
C3_Witness ==
    \E h \in Handlers :
        /\ Responded(h)
        /\ ProcessingRaised(h)
        /\ LET last == calls[h][Len(calls[h])]
           IN  last.fn = "get_scraped_context" /\ Returned(last)

\* C4: the scraper is called exactly when query_index returned an empty
\* result, with the query query_index got (the request's message); after a
\* non-empty result it is never called.
C4_ScraperIffIndexEmpty ==
    \A h \in Handlers :
        Active(h) =>
            /\ \A j \in CallsTo(h, "get_scraped_context") :
                   /\ calls[h][j].arg = request[h].message
                   /\ \E i \in CallsTo(h, "query_index") :
                          /\ i < j
                          /\ Returned(calls[h][i])
                          /\ IsEmptyResult(calls[h][i].out.value)
                          /\ calls[h][i].arg = calls[h][j].arg
            /\ \A i \in CallsTo(h, "query_index") :
                   /\ Returned(calls[h][i]) /\ IsEmptyResult(calls[h][i].out.value) =>
                          \/ pc[h] = "get_scraped_context"
                          \/ CallsTo(h, "get_scraped_context") # {}
                   /\ Returned(calls[h][i]) /\ ~IsEmptyResult(calls[h][i].out.value) =>
                          /\ pc[h] # "get_scraped_context"
                          /\ CallsTo(h, "get_scraped_context") = {}

C4_Witness ==
    \E h \in Handlers :
        /\ Responded(h)
        /\ Len(calls[h]) = 3
        /\ calls[h][1].out = Return(PyList(<<>>))
        /\ calls[h][2].fn = "get_scraped_context"

\* the same letter, whatever its case
SameLetter(a, b) ==
    \/ a = b
    \/ \E i \in 1..Len(UpperCase) : {a, b} = {UpperCase[i], LowerCase[i]}

\* some keyword stands somewhere in the message, case aside
KeywordOccurs(message) ==
    \E k \in 1..Len(KEYWORD_LIST) :
        LET kw == KEYWORD_LIST[k]
        IN  \E off \in 0..(Len(message) - Len(kw)) :
                \A j \in 1..Len(kw) : SameLetter(message[off + j], kw[j])

\* C5: is_valid_intent is true exactly of the messages in which a keyword
\* occurs as a substring, case aside; false of the empty message; and the
\* gate lets through exactly the messages it is true of.
C5_IntentIsKeywordSubstring ==
    \A h \in Handlers :
        Active(h) =>
            /\ is_valid_intent(request[h].message) <=> KeywordOccurs(request[h].message)
            /\ request[h].message = <<>> => ~is_valid_intent(request[h].message)
            /\ pc[h] \notin {"received", "responded"} => KeywordOccurs(request[h].message)

\* "RooFtop" passed the gate: a keyword in another case inside a longer word
C5_Witness ==
    \E h \in Handlers :
        /\ Active(h)
        /\ request[h].message = <<"R", "o", "o", "F", "t", "o", "p">>
        /\ pc[h] = "query_index"

\* C6: a rejected request is answered in English when its lang is "en" and in
\* German when lang is "de", is left out, or is anything else.
C6_RedirectByLang ==
    \A h \in Handlers :
        Rejected(h) /\ Responded(h) =>
            IF "lang" \in DOMAIN body[h] /\ body[h].lang = "en"
            THEN http[h] = Ok200(fallback_msg["en"])
            ELSE http[h] = Ok200(fallback_msg["de"])

\* a rejected request whose lang is neither de nor en was answered
C6_Witness ==
    \E h \in Handlers :
        /\ Rejected(h)
        /\ Responded(h)
        /\ "lang" \in DOMAIN body[h]
        /\ body[h].lang = "fr"

\* C7: the static replies of the processing path follow the request's lang, so
\* that a request with lang "en" is not answered with the German text.
C7_StaticRepliesLocalized ==
    \A h \in Handlers :
        Responded(h) /\ Accepted(h) /\ request[h].lang = "en" =>
            /\ http[h] # Ok200(fallback)
            /\ http[h] # Ok200(error_reply)

\* the collaborator result the context is made of: query_index's unless it is
\* empty, and then the scraper's
UsedOutcome(h) ==
    LET q == calls[h][1].out
    IN  IF Returned(calls[h][1]) /\ IsEmptyResult(q.value) /\ Len(calls[h]) >= 2
        THEN calls[h][2].out
        ELSE q

\* the strings s[1], ..., s[n] with a newline between each two
RECURSIVE NewlineJoined(_, _)
NewlineJoined(s, n) ==
    IF n = 0 THEN <<>>
    ELSE IF n = 1 THEN s[1].chars
    ELSE NewlineJoined(s, n - 1) \o <<"\n">> \o s[n].chars

\* the context section of a prompt: what stands between the context header
\* and the newline that ends the prompt
ContextOf(prompt) ==
    LET k == CHOOSE i \in 1..Len(prompt) : prompt[i] = "\n\nKontext:\n"
    IN  SubSeq(prompt, k + 1, Len(prompt) - 1)

\* the question section of a prompt
QuestionOf(prompt) ==
    LET k == CHOOSE i \in 1..Len(prompt) : prompt[i] = "\n\nKontext:\n"
    IN  SubSeq(prompt, 2, k - 1)

PromptSent(c) == c.arg.messages[1].content

\* nothing raised up to the join and the documents used are strings
ContextAssembled(h) ==
    /\ calls[h] # <<>>
    /\ calls[h][Len(calls[h])].fn # "query_index" \/ ~IsEmptyResult(UsedOutcome(h).value)
    /\ UsedOutcome(h).kind = "return"
    /\ Joinable(UsedOutcome(h).value)

\* C8: the context in the prompt sent to the completion API is the strings of
\* the collaborator result used, in the order returned, joined by newlines;
\* the call is made whenever no collaborator raised, also with an empty
\* context after two empty results.
C8_ContextIsJoinedDocuments ==
    \A h \in Handlers :
        Accepted(h) =>
            /\ \A i \in CallsTo(h, "chat.completions.create") :
                   /\ ContextAssembled(h)
                   /\ ContextOf(PromptSent(calls[h][i])) =
                          NewlineJoined(UsedOutcome(h).value.items,
                                        Len(UsedOutcome(h).value.items))
                   /\ QuestionOf(PromptSent(calls[h][i])) = request[h].message
            /\ pc[h] \in {"extract_reply", "responded"} /\ ~Raised(calls[h][1])
                 /\ ContextAssembled(h) =>
                   CallsTo(h, "chat.completions.create") # {}
            /\ Len(calls[h]) >= 2
                 /\ calls[h][1].out = Return(PyList(<<>>))
                 /\ calls[h][2].out = Return(PyList(<<>>))
                 /\ pc[h] \in {"extract_reply", "responded"} =>
                   /\ Len(calls[h]) = 3
                   /\ ContextOf(PromptSent(calls[h][3])) = <<>>

\* the scraper's two documents went into the prompt
C8_Witness ==
    \E h \in Handlers :
        /\ Len(calls[h]) = 3
        /\ calls[h][1].out = Return(PyList(<<>>))
        /\ calls[h][2].out = Return(PyList(<<Doc1, Doc2>>))
        /\ ContextOf(PromptSent(calls[h][3])) = <<"P", "V", "\n", "D", "a", "c", "h">>

\* C10: within one request each of the three external calls is made at most
\* once and in the order query_index, get_scraped_context, completion; the
\* completion call is made only with the context assembled; and a call that
\* raises is the request's last, answered with the failure reply.
C10_NoRetryFixedOrder ==
    \A h \in Handlers :
        Active(h) =>
            /\ \A fn \in {"query_index", "get_scraped_context", "chat.completions.create"} :
                   Cardinality(CallsTo(h, fn)) <= 1
            /\ \A i \in CallsTo(h, "query_index") : i = 1
            /\ \A i \in CallsTo(h, "get_scraped_context") : i = 2
            /\ \A i \in CallsTo(h, "chat.completions.create") :
                   /\ i = Len(calls[h])
                   /\ i > 1
                   /\ frame[h].context_text # Unbound
                   /\ frame[h].prompt = PyStr(PromptSent(calls[h][i]))
            /\ \A i \in 1..Len(calls[h]) :
                   Raised(calls[h][i]) =>
                       /\ i = Len(calls[h])
                       /\ Responded(h)
                       /\ http[h] = Ok200(error_reply)

\* query_index raised and the request was answered after that one call
C10_Witness ==
    \E h \in Handlers :
        /\ Responded(h)
        /\ Len(calls[h]) = 1
        /\ Raised(calls[h][1])

(***************************************************************************)
(* Concurrent requests.                                                    *)
(***************************************************************************)
NoCall == [kind |-> "none"]

\* the outcome of h's call to fn, if the request made one
OutcomeOf(h, fn) ==
    IF CallsTo(h, fn) = {} THEN NoCall
    ELSE calls[h][CHOOSE i \in CallsTo(h, fn) : TRUE].out

\* the response of a request as a function of its message, its lang and the
\* outcomes of its own calls alone
ResponseFrom(message, lang, qi, sc, co) ==
    IF ~KeywordOccurs(message)
    THEN Ok200(IF lang = "en" THEN fallback_msg["en"] ELSE fallback_msg["de"])
    ELSE IF qi.kind # "return" THEN Ok200(error_reply)
    ELSE LET used == IF IsEmptyResult(qi.value) THEN sc ELSE qi
         IN  IF used.kind # "return" THEN Ok200(error_reply)
             ELSE IF ~Joinable(used.value) THEN Ok200(error_reply)
             ELSE IF co.kind # "return" THEN Ok200(error_reply)
             ELSE LET content == co.value.choices[1].message.content
                  IN  IF content.type # "str" THEN Ok200(error_reply)
                      ELSE IF strip(content.chars) = <<>> THEN Ok200(fallback)
                      ELSE Ok200(strip(content.chars))

\* C9: however the handlers of concurrent requests are interleaved, the
\* keyword list stays what it was at startup, every call a request makes
\* carries its own message, and its response is a function of its own
\* message, lang and call outcomes.
C9_RequestsIndependent ==
    /\ VALID_KEYWORDS = KEYWORD_LIST
    /\ \A h \in Handlers :
           /\ \A i \in 1..Len(calls[h]) :
                  IF calls[h][i].fn = "chat.completions.create"
                  THEN QuestionOf(PromptSent(calls[h][i])) = request[h].message
                  ELSE calls[h][i].arg = request[h].message
           /\ Responded(h) =>
                  http[h] = ResponseFrom(request[h].message, request[h].lang,
                                         OutcomeOf(h, "query_index"),
                                         OutcomeOf(h, "get_scraped_context"),
                                         OutcomeOf(h, "chat.completions.create"))

\* two requests in flight at once, both past their first call, ended differently
C9_Witness ==
    \E g, h \in Handlers :
        /\ g # h
        /\ Responded(g) /\ Responded(h)
        /\ Len(calls[g]) = 3 /\ Len(calls[h]) = 2
        /\ http[g] = Ok200(<<"J", "a">>)
        /\ http[h] = Ok200(error_reply)

====
